---------------------------- MODULE Spec2Model ----------------------------
(***************************************************************************)
(* Model of the home_ai request pipeline.                                  *)
(*                                                                         *)
(*   Spec       orchestrate_request (orchestrator/app/orchestrator.py)     *)
(*              together with the adapters it calls                        *)
(*              (orchestrator/app/services.py) and the text backend whose  *)
(*              stream it relays (llm_service/app/services.py stream_chat).*)
(*   SpecRelay  stream_from_orchestrator (api_gateway/app/services.py).    *)
(*   SpecRelay  also holds a request to the gateway's /api/stream          *)
(*              (api_gateway/app/main.py stream_request).                  *)
(*   SpecBot    stream_response_to_telegram and StreamAccumulator          *)
(*              (telegram_bot/app/streaming.py).                           *)
(*   SpecCodec  _sse and the consumer's line parser, by characters.        *)
(*   SpecAccess check_access and handle_message                            *)
(*              (telegram_bot/app/handlers.py).                            *)
(*                                                                         *)
(* Strings are kept as in the source except that the Cyrillic literals are *)
(* transliterated.  A text is a sequence of string pieces; concatenation   *)
(* of texts is \o.                                                         *)
(***************************************************************************)
EXTENDS Integers, Sequences, FiniteSets, TLC

\* ------------------------------------------------------------------ bounds
\* Longest file list of a request.
MaxFiles == 2
\* Most chunks read from an execution backend's stream in one run.
MaxChunks == 2
\* Longest inner stream handed to the gateway relay.
MaxInner == 3
\* Most events of a stream read by the chat-bot consumer.
MaxFrames == 3
\* Most empty chunks the gateway relay receives in one run.
MaxEmpty == 1
\* Longest text of a payload member in the codec round trip.
MaxText == 2
\* Most updates handle_message is called for in one run.
MaxUpdates == 2

\* --------------------------------------------------------------- variables
VARIABLES
    files,          \* request.files: sequence of FileReference
    pc,             \* position of orchestrate_request
    out,            \* the events orchestrate_request has yielded, in order
    tika,           \* the extract_text_from_documents task
    vision,         \* the recognize_multimodal_files task
    completed,      \* the fan-out tasks in the order they completed
    processed_files,\* the merged ProcessedFile list
    routeCalls,     \* the processed_files argument of each route_request call
    routeResp,      \* what the routing backend did in each route_request call
    decision,       \* routing_decision, or NoDecision
    opened,         \* the execution adapters opened, in order
    chat,           \* position of the text backend's stream_chat generator
    chunksRead,     \* chunks read from the execution stream
    execRaised,     \* the execution stream raised (open or read)
    outAtRaise,     \* out at the moment the execution stream raised
    execSeen,       \* the chunks read from the execution stream, in order
    gwUrl,          \* config.ORCHESTRATOR_URL of the gateway is set
    gwPc,           \* position of stream_from_orchestrator
    gwInner,        \* chunks the orchestrator still has to send
    gwSeen,         \* chunks the gateway has received from the orchestrator
    gwOut,          \* chunks the gateway has yielded
    tgPc,           \* position of stream_response_to_telegram
    tgEventType,    \* its local event_type, Unbound before the first event line
    tgPending,      \* lines on the wire that have not been read yet
    tgAcc,          \* the StreamAccumulator: buffer, current_message_id
    tgChat,         \* what the bot has delivered to the chat, in order
    tgBotFailed,    \* a call of the bot has raised
    tgReceived,     \* the text of the response text events read so far
    tgFrames,       \* events that arrived on the wire so far
    tgLast,         \* the event whose data line was processed last
    tgDone,         \* lines read since the first done event, -1 before it
    tgOnlyText,     \* only response text, status and done events were read
    tgTwin,         \* a second, independent run of the consumer on the same lines
    epPc,           \* position of a request to the gateway's /api/stream
    epOut,          \* what the client of /api/stream has received
    cdPc,           \* position of the codec round trip
    cdEvent,        \* the event handed to _sse: type and payload
    cdWire,         \* the characters _sse returned
    cdLines,        \* the lines of the wire still to be parsed
    cdType,         \* the parser's event_type
    cdDecoded,      \* the events the parser has dispatched, in order
    ALLOWED_USER_IDS,   \* config.ALLOWED_USER_IDS of the chat-bot
    hmPc,           \* position of handle_message
    hmLog,          \* the updates handled so far, with what was done for each
    hmFiles         \* the files list of handle_message

pvars == <<files, pc, out, tika, vision, completed, processed_files,
           routeCalls, routeResp, decision, opened, chat, chunksRead,
           execRaised, outAtRaise, execSeen>>
gvars == <<gwUrl, gwPc, gwInner, gwSeen, gwOut>>
tvars == <<tgPc, tgEventType, tgPending, tgAcc, tgChat, tgBotFailed,
           tgReceived, tgFrames, tgLast, tgDone, tgOnlyText, tgTwin>>
evars == <<epPc, epOut>>
cvars == <<cdPc, cdEvent, cdWire, cdLines, cdType, cdDecoded>>
hvars == <<ALLOWED_USER_IDS, hmPc, hmLog, hmFiles>>
vars == <<pvars, gvars, tvars, evars, cvars, hvars>>

\* ----------------------------------------------------------------- helpers
RECURSIVE SeqsUpTo(_, _)
SeqsUpTo(S, n) ==
    IF n = 0 THEN {<<>>}
    ELSE LET shorter == SeqsUpTo(S, n - 1)
         IN shorter \cup {Append(s, x) : s \in {t \in shorter : Len(t) = n - 1}, x \in S}

Last(s) == s[Len(s)]

\* Number of elements of s that satisfy Test.
Count(s, Test(_)) == Len(SelectSeq(s, Test))

\* Position of the first element of s that satisfies Test, 0 if none.
FirstIndex(s, Test(_)) ==
    IF \E i \in 1..Len(s) : Test(s[i])
    THEN CHOOSE i \in 1..Len(s) : Test(s[i]) /\ \A j \in 1..(i - 1) : ~Test(s[j])
    ELSE 0

\* ------------------------------------------------------------------ events
\* The payload of an event, as far as the pipeline's behaviour depends on it:
\* tag is the step of a status, the type of a response, the stage of an
\* error; route is the route a routing_complete status carries.
Data(tag) == [tag |-> tag, route |-> ""]
DataRoute(tag, route) == [tag |-> tag, route |-> route]

\* An event orchestrate_request creates with _sse.
sse(event, data) == [type |-> event, data |-> data, own |-> TRUE]
\* An event of the execution backend's stream, re-yielded as received.
relayed(e) == [type |-> e.type, data |-> e.data, own |-> FALSE]

IsDone(e) == e.type = "done"
IsWarning(e) == e.type = "warning"
IsOwnError(e) == e.type = "error" /\ e.own
IsRoutingStatus(e) == e.type = "status" /\ e.own /\ e.data.tag = "routing"
IsFileEvent(e) ==
    \/ e.type = "warning"
    \/ e.type = "status" /\ e.own
         /\ e.data.tag \in {"file_processing", "file_processing_complete"}

\* ------------------------------------------------------------- the request
\* MIME types a request's files are drawn from: one of each allow-list and
\* one of neither.
MimeTypes == {"application/pdf", "image/png", "audio/mpeg"}

FileNames == <<"f1", "f2", "f3", "f4">>

FileReference(i, t) == [filename |-> FileNames[i], type |-> t]

Requests ==
    {[i \in 1..Len(ts) |-> FileReference(i, ts[i])] : ts \in SeqsUpTo(MimeTypes, MaxFiles)}

original_prompt == <<"prompt">>

\* ---------------------------------------------------------------- adapters
\* An allow-list of documents that also holds an image type.
document_types_with_png ==
    {"application/pdf", "text/plain", "application/octet-stream", "image/png"}

document_types ==
    {"application/pdf",
     "application/vnd.openxmlformats-officedocument.wordprocessingml.document",
     "application/msword", "text/plain", "text/markdown",
     "application/vnd.ms-excel",
     "application/vnd.openxmlformats-officedocument.spreadsheetml.sheet",
     "application/octet-stream"}

multimodal_types ==
    {"image/jpeg", "image/png", "image/gif", "image/webp", "video/mp4", "video/webm"}

ProcessedFile(f, text, method) ==
    [filename |-> f.filename, original_type |-> f.type,
     extracted_text |-> text, processing_method |-> method]

\* A fan-out task: st is idle (not called), pending (scheduled by gather,
\* not yet run), running (inside the per-file loop, i the next file),
\* returned or raised; res is the list `processed` built so far.
IdleTask == [st |-> "idle", i |-> 0, res |-> <<>>]
PendingTask == [st |-> "pending", i |-> 0, res |-> <<>>]

\* A join that only waits for a task to have started.
TaskStarted(t) == t.st \in {"running", "returned", "raised"}

TaskDone(t) == t.st \in {"returned", "raised"}

\* The files an adapter keeps: files whose type is in its allow-list.
Matching(fs, types) == SelectSeq(fs, LAMBDA f : f.type \in types)

\* The adapter up to its per-file loop: an empty filter result returns at
\* once; otherwise the httpx client is opened, which is outside every
\* try of the adapter, so a failure there fails the call as a whole.
AdapterBegin(fs, types, clientOk) ==
    IF Matching(fs, types) = <<>> THEN [st |-> "returned", i |-> 0, res |-> <<>>]
    ELSE IF clientOk THEN [st |-> "running", i |-> 1, res |-> <<>>]
    ELSE [st |-> "raised", i |-> 0, res |-> <<>>]

\* A per-file loop without its try: a failing request fails the whole call.
AdapterFileRaising(t, fs, types, method, ok) ==
    LET m == Matching(fs, types)
    IN IF ~ok THEN [st |-> "raised", i |-> t.i + 1, res |-> t.res]
       ELSE [st |-> IF t.i = Len(m) THEN "returned" ELSE "running", i |-> t.i + 1,
             res |-> Append(t.res, ProcessedFile(m[t.i], "text", method))]

\* One iteration of the per-file loop: the request for file i succeeds and
\* its ProcessedFile is appended, or it raises inside the try and the file
\* is skipped; after the last file the adapter returns `processed`.
AdapterFile(t, fs, types, method, ok) ==
    LET m == Matching(fs, types)
        res == IF ok THEN Append(t.res, ProcessedFile(m[t.i], "text", method)) ELSE t.res
    IN [st |-> IF t.i = Len(m) THEN "returned" ELSE "running", i |-> t.i + 1, res |-> res]

extract_text_from_documents_begin(fs, clientOk) == AdapterBegin(fs, document_types, clientOk)
extract_text_from_documents_file(t, fs, ok) == AdapterFile(t, fs, document_types, "tika", ok)
recognize_multimodal_files_begin(fs, clientOk) == AdapterBegin(fs, multimodal_types, clientOk)
recognize_multimodal_files_file(t, fs, ok) == AdapterFile(t, fs, multimodal_types, "qwen3vl", ok)

\* What asyncio.gather hands back for one task: its list, or the exception
\* it raised (isinstance(x, list) is FALSE).
TaskResult(t) == [list |-> t.st = "returned", value |-> IF t.st = "returned" THEN t.res ELSE <<>>]

\* A gather without return_exceptions: the first exception is raised to the
\* caller and the results of the other task are not handed back.
gatherRaising(t, v, order) ==
    [raised |-> t.st = "raised" \/ v.st = "raised",
     tika_results |-> TaskResult(t), vision_results |-> TaskResult(v)]

\* A gather that hands the results back in the order of completion.
gatherAsCompleted(t, v, order) ==
    IF order[1] = "tika"
    THEN [raised |-> FALSE, tika_results |-> TaskResult(t), vision_results |-> TaskResult(v)]
    ELSE [raised |-> FALSE, tika_results |-> TaskResult(v), vision_results |-> TaskResult(t)]

\* asyncio.gather(tika_task, vision_task, return_exceptions=True): never
\* raises, and the results are in argument order whatever the order of
\* completion.
gather(t, v, order) ==
    [raised |-> FALSE, tika_results |-> TaskResult(t), vision_results |-> TaskResult(v)]

\* ----------------------------------------------------------------- routing
NoDecision == [route |-> "none", enhanced_prompt |-> <<>>, reasoning |-> ""]

ContextSeparator == "\n\nKontekst:\n"

RECURSIVE files_context(_)
\* "\n\n".join of one description per processed file.
files_context(pfs) ==
    IF pfs = <<>> THEN <<>>
    ELSE LET f == pfs[1]
             one == <<"Fajl: ", f.filename, "\nTip: ", f.original_type,
                      "\nSoderzhimoe:\n", f.extracted_text>>
         IN IF Len(pfs) = 1 THEN one ELSE one \o <<"\n\n">> \o files_context(Tail(pfs))

\* What the routing backend does with the POST /route.
RouteFailures == {"connect_error", "timeout", "http_error", "bad_json"}
RouteResponses ==
    [kind : {"ok"}, route : {"llm", "comfy", "search"}]
        \cup [kind : RouteFailures, route : {""}]

\* RoutingDecision(**result) validates route against Literal["llm", "comfy"].
ValidDecision(resp) == resp.kind = "ok" /\ resp.route \in {"llm", "comfy"}

\* A fallback that forgets the files context.
FallbackPromptOnly(prompt, pfs) ==
    [route |-> "llm", enhanced_prompt |-> prompt,
     reasoning |-> "Prompting service unavailable, fallback to LLM"]

FallbackDecision(prompt, pfs) ==
    [route |-> "llm",
     enhanced_prompt |-> prompt \o <<ContextSeparator>> \o files_context(pfs),
     reasoning |-> "Prompting service unavailable, fallback to LLM"]

\* route_request: the client is opened outside the try; everything from
\* the POST to the construction of the RoutingDecision is inside it.
route_request(prompt, pfs, clientOk, resp) ==
    IF ~clientOk THEN [raised |-> TRUE, decision |-> NoDecision]
    ELSE IF ValidDecision(resp)
    THEN [raised |-> FALSE,
          decision |-> [route |-> resp.route, enhanced_prompt |-> <<"enhanced">>,
                        reasoning |-> "backend"]]
    ELSE [raised |-> FALSE, decision |-> FallbackDecision(prompt, pfs)]

\* --------------------------------------------------------------- execution
\* The adapter the if/elif chain of orchestrate_request opens for a route;
\* "none" is the else branch.
\* A chain whose second test repeats the first.
DispatchLlmOnly(route) ==
    IF route \in {"llm", "comfy"} THEN "stream_from_llm" ELSE "none"

Dispatch(route) ==
    IF route = "llm" THEN "stream_from_llm"
    ELSE IF route = "comfy" THEN "stream_from_comfyui"
    ELSE "none"

\* A stream_chat whose except clauses end the generator after error.
ChatYieldNoFinalDone(c) ==
    IF c \in {"try", "lines"}
    THEN {<<[type |-> "response", data |-> Data("text")], "lines">>,
          <<[type |-> "error", data |-> Data("llm")], "final">>,
          <<[type |-> "done", data |-> Data("completed")], "final">>}
    ELSE {}

\* stream_chat of the text backend, as the sequence of events it yields.
\* Its positions: "try" (the try is entered, raise_for_status has not yet
\* passed), "lines" (reading the lines of llama.cpp), "failed" (an except
\* clause has yielded error), "final" (done yielded, the generator is
\* exhausted).
\* From "try" it yields error(llm_status) when raise_for_status raises
\* HTTPStatusError and error(llm) when connecting raises anything else;
\* from "try" and "lines" alike it yields response(text) for a line with
\* content, error(llm) when reading or decoding raises, and done after the
\* break at [DONE] or the end of the upstream; lines without content yield
\* nothing.
ChatYield(c) ==
    IF c \in {"try", "lines"}
    THEN {<<[type |-> "response", data |-> Data("text")], "lines">>,
          <<[type |-> "error", data |-> Data("llm")], "failed">>,
          <<[type |-> "done", data |-> Data("completed")], "final">>}
         \cup (IF c = "try"
               THEN {<<[type |-> "error", data |-> Data("llm_status")], "failed">>}
               ELSE {})
    ELSE IF c = "failed"
    THEN {<<[type |-> "done", data |-> Data("completed")], "final">>}
    ELSE {}

\* The image backend is not part of the repository: its stream is any
\* sequence of these events.
ComfyEvents ==
    {[type |-> "response", data |-> Data("image")],
     [type |-> "error", data |-> Data("comfy")],
     [type |-> "done", data |-> Data("completed")]}

\* An except clause that returns after its error event.
ExecutionErrorReturn(o) == Append(o, sse("error", Data("execution")))

\* The except clause of the execution stage followed by the final yield.
ExecutionError(o) ==
    o \o <<sse("error", Data("execution")), sse("done", Data("completed"))>>

\* The final yield of orchestrate_request after the execution stage.
Finish(o) == Append(o, sse("done", Data("completed")))

\* -------------------------------------------------------------------- Init
\* The local event_type of stream_response_to_telegram before any event line.
Unbound == "<unbound>"

GatewayIdle ==
    /\ gwUrl = TRUE
    /\ gwPc = "off"
    /\ gwInner = <<>>
    /\ gwSeen = <<>>
    /\ gwOut = <<>>
    /\ epPc = "off"
    /\ epOut = <<>>

NoWireEvent == [type |-> "", payload |-> <<>>]

CodecOff ==
    /\ cdPc = "off"
    /\ cdEvent = NoWireEvent
    /\ cdWire = <<>>
    /\ cdLines = <<>>
    /\ cdType = Unbound
    /\ cdDecoded = <<>>

\* The chat-bot handler is not running.
HandlerOff ==
    /\ ALLOWED_USER_IDS = {}
    /\ hmPc = "off"
    /\ hmLog = <<>>
    /\ hmFiles = <<>>

NoEvent == [type |-> "", kind |-> ""]

NewAccumulator == [buffer |-> <<>>, current_message_id |-> 0]

\* The accumulator with the bot's chat: acc is the StreamAccumulator, chat
\* what the bot has delivered, failed whether a call of the bot raised.
World(acc, chatlog, failed) == [acc |-> acc, chat |-> chatlog, failed |-> failed]

\* One run of stream_response_to_telegram: where it is, its local
\* event_type, its accumulator and what its bot delivered.
Consumer(at, event_type, w) == [pc |-> at, event_type |-> event_type, w |-> w]

BotOff ==
    /\ tgPc = "off"
    /\ tgEventType = Unbound
    /\ tgPending = <<>>
    /\ tgAcc = NewAccumulator
    /\ tgChat = <<>>
    /\ tgBotFailed = FALSE
    /\ tgReceived = <<>>
    /\ tgFrames = 0
    /\ tgLast = NoEvent
    /\ tgDone = -1
    /\ tgOnlyText = TRUE
    /\ tgTwin = Consumer("off", Unbound, World(NewAccumulator, <<>>, FALSE))

Init ==
    /\ files \in Requests
    /\ pc = "idle"
    /\ out = <<>>
    /\ tika = IdleTask
    /\ vision = IdleTask
    /\ completed = <<>>
    /\ processed_files = <<>>
    /\ routeCalls = <<>>
    /\ routeResp = <<>>
    /\ decision = NoDecision
    /\ opened = <<>>
    /\ chat = "try"
    /\ chunksRead = 0
    /\ execRaised = FALSE
    /\ outAtRaise = <<>>
    /\ execSeen = <<>>
    /\ GatewayIdle
    /\ BotOff
    /\ CodecOff
    /\ HandlerOff

\* ----------------------------------------------------------------- actions
\* `if request.files:` of step 1.
HasFilesAlways(fs) == TRUE
HasFiles(fs) == fs # <<>>

\* orchestrate_request up to the gather: with files, status(file_processing)
\* is yielded and both adapter coroutines are handed to asyncio.gather;
\* without files the stage is skipped.
Start ==
    /\ pc = "idle"
    /\ IF HasFiles(files)
       THEN /\ out' = Append(out, sse("status", Data("file_processing")))
            /\ tika' = PendingTask
            /\ vision' = PendingTask
            /\ pc' = "fanout"
       ELSE /\ pc' = "routing"
            /\ UNCHANGED <<out, tika, vision>>
    /\ UNCHANGED <<files, completed, processed_files, routeCalls, routeResp,
                   decision, opened, chat, chunksRead, execRaised, outAtRaise>>
    /\ UNCHANGED execSeen
    /\ UNCHANGED <<gvars, tvars, evars, cvars, hvars>>

NoteCompleted(name, t) == IF TaskDone(t) THEN Append(completed, name) ELSE completed

TikaBegin ==
    /\ pc = "fanout"
    /\ tika.st = "pending"
    /\ \E clientOk \in BOOLEAN :
         /\ tika' = extract_text_from_documents_begin(files, clientOk)
         /\ completed' = NoteCompleted("tika", tika')
    /\ UNCHANGED <<files, pc, out, vision, processed_files, routeCalls, routeResp,
                   decision, opened, chat, chunksRead, execRaised, outAtRaise>>
    /\ UNCHANGED execSeen
    /\ UNCHANGED <<gvars, tvars, evars, cvars, hvars>>

TikaFile ==
    /\ pc = "fanout"
    /\ tika.st = "running"
    /\ \E ok \in BOOLEAN :
         /\ tika' = extract_text_from_documents_file(tika, files, ok)
         /\ completed' = NoteCompleted("tika", tika')
    /\ UNCHANGED <<files, pc, out, vision, processed_files, routeCalls, routeResp,
                   decision, opened, chat, chunksRead, execRaised, outAtRaise>>
    /\ UNCHANGED execSeen
    /\ UNCHANGED <<gvars, tvars, evars, cvars, hvars>>

\* gather schedules its tasks in argument order, so the vision task takes its
\* first step after the tika task has taken its own.
VisionBegin ==
    /\ pc = "fanout"
    /\ vision.st = "pending"
    /\ tika.st # "pending"
    /\ \E clientOk \in BOOLEAN :
         /\ vision' = recognize_multimodal_files_begin(files, clientOk)
         /\ completed' = NoteCompleted("vision", vision')
    /\ UNCHANGED <<files, pc, out, tika, processed_files, routeCalls, routeResp,
                   decision, opened, chat, chunksRead, execRaised, outAtRaise>>
    /\ UNCHANGED execSeen
    /\ UNCHANGED <<gvars, tvars, evars, cvars, hvars>>

VisionFile ==
    /\ pc = "fanout"
    /\ vision.st = "running"
    /\ \E ok \in BOOLEAN :
         /\ vision' = recognize_multimodal_files_file(vision, files, ok)
         /\ completed' = NoteCompleted("vision", vision')
    /\ UNCHANGED <<files, pc, out, tika, processed_files, routeCalls, routeResp,
                   decision, opened, chat, chunksRead, execRaised, outAtRaise>>
    /\ UNCHANGED execSeen
    /\ UNCHANGED <<gvars, tvars, evars, cvars, hvars>>

\* The await of the gather and the rest of the try of step 1: the results
\* that are lists are appended, documents first; file_processing_complete
\* is yielded when the merged list is not empty; an exception raised in the
\* try (none, with return_exceptions=True) yields the warning.
Join ==
    /\ pc = "fanout"
    /\ TaskDone(tika) /\ TaskDone(vision)
    /\ LET g == gather(tika, vision, completed)
           merged == (IF g.tika_results.list THEN g.tika_results.value ELSE <<>>)
                       \o (IF g.vision_results.list THEN g.vision_results.value ELSE <<>>)
       IN IF g.raised
          THEN /\ out' = Append(out, sse("warning", Data("file_processing")))
               /\ UNCHANGED processed_files
          ELSE /\ processed_files' = merged
               /\ out' = IF merged # <<>>
                         THEN Append(out, sse("status", Data("file_processing_complete")))
                         ELSE out
    /\ pc' = "routing"
    /\ UNCHANGED <<files, tika, vision, completed, routeCalls, routeResp,
                   decision, opened, chat, chunksRead, execRaised, outAtRaise>>
    /\ UNCHANGED execSeen
    /\ UNCHANGED <<gvars, tvars, evars, cvars, hvars>>

\* An except clause of step 2 that starts the routing stage again.
AfterRoutingErrorRetry == "routing"

\* Where the except clause of step 2 leaves the run: it returns.
AfterRoutingError == "terminated"

\* Step 2: status(routing), the call of route_request, then
\* status(routing_complete) or, when the call raised, error and return.
Routing ==
    /\ pc = "routing"
    /\ \E clientOk \in BOOLEAN, resp \in RouteResponses :
         LET o == Append(out, sse("status", Data("routing")))
             r == route_request(original_prompt, processed_files, clientOk, resp)
         IN /\ routeCalls' = Append(routeCalls, processed_files)
            /\ routeResp' = Append(routeResp, [clientOk |-> clientOk, resp |-> resp])
            /\ IF r.raised
               THEN /\ out' = Append(o, sse("error", Data("routing")))
                    /\ pc' = AfterRoutingError
                    /\ UNCHANGED decision
               ELSE /\ decision' = r.decision
                    /\ out' = Append(o, sse("status",
                                  DataRoute("routing_complete", r.decision.route)))
                    /\ pc' = "execution"
    /\ UNCHANGED <<files, tika, vision, completed, processed_files, opened,
                   chat, chunksRead, execRaised, outAtRaise>>
    /\ UNCHANGED execSeen
    /\ UNCHANGED <<gvars, tvars, evars, cvars, hvars>>

\* An except clause of step 3 that opens the backend again.
AfterOpenErrorRetry == "execution"

\* Where the except clause of step 3 leaves the run: at its end, after done.
AfterOpenError == "terminated"

\* Step 3, entering the async for: the adapter of the route is called and
\* opens its stream (client, POST, raise_for_status), which may raise; an
\* unknown route yields error and then done.
Open ==
    /\ pc = "execution"
    /\ LET backend == Dispatch(decision.route)
       IN IF backend = "none"
          THEN /\ out' = Finish(Append(out, sse("error", Data("unknown_route"))))
               /\ pc' = "terminated"
               /\ UNCHANGED <<opened, execRaised, outAtRaise>>
          ELSE /\ opened' = Append(opened, backend)
               /\ \E ok \in BOOLEAN :
                    IF ok
                    THEN /\ pc' = "streaming"
                         /\ UNCHANGED <<out, execRaised, outAtRaise>>
                    ELSE /\ out' = ExecutionError(out)
                         /\ execRaised' = TRUE
                         /\ outAtRaise' = out
                         /\ pc' = AfterOpenError
    /\ UNCHANGED <<files, tika, vision, completed, processed_files, routeCalls,
                   routeResp, decision, chat, chunksRead>>
    /\ UNCHANGED execSeen
    /\ UNCHANGED <<gvars, tvars, evars, cvars, hvars>>

\* The events the opened backend may send next, with the backend's next
\* position.
BackendYield ==
    IF opened[Len(opened)] = "stream_from_llm" THEN ChatYield(chat)
    ELSE {<<e, chat>> : e \in ComfyEvents}

\* The backend has closed its stream.
BackendEnded ==
    IF opened[Len(opened)] = "stream_from_llm" THEN chat = "final" ELSE TRUE

\* A chunk of the backend's aiter_text that holds no text.
NoText == [type |-> "", data |-> Data("")]

\* A relay that formats each chunk anew as an event of its own.
ExecForwardOwn(o, chunk) ==
    IF chunk # NoText THEN Append(o, sse(chunk.type, chunk.data)) ELSE o

\* "if chunk: yield chunk" of the adapter and "yield chunk" of
\* orchestrate_request.
ExecForward(o, chunk) == IF chunk # NoText THEN Append(o, relayed(chunk)) ELSE o

\* One iteration of the async for: a non-empty chunk is yielded as it is.
RelayChunk ==
    /\ pc = "streaming"
    /\ chunksRead < MaxChunks
    /\ \E y \in BackendYield :
         /\ out' = ExecForward(out, y[1])
         /\ execSeen' = Append(execSeen, y[1])
         /\ chat' = y[2]
    /\ chunksRead' = chunksRead + 1
    /\ UNCHANGED <<files, pc, tika, vision, completed, processed_files, routeCalls,
                   routeResp, decision, opened, execRaised, outAtRaise>>
    /\ UNCHANGED <<gvars, tvars, evars, cvars, hvars>>

\* One iteration of the async for with an empty chunk: `if chunk` drops it.
RelayEmpty ==
    /\ pc = "streaming"
    /\ chunksRead < MaxChunks
    /\ ~(opened[Len(opened)] = "stream_from_llm" /\ chat = "final")
    /\ out' = ExecForward(out, NoText)
    /\ execSeen' = Append(execSeen, NoText)
    /\ chunksRead' = chunksRead + 1
    /\ UNCHANGED <<files, pc, tika, vision, completed, processed_files, routeCalls,
                   routeResp, decision, opened, chat, execRaised, outAtRaise>>
    /\ UNCHANGED <<gvars, tvars, evars, cvars, hvars>>

\* Reading the next chunk raises: error, then done.
ReadRaises ==
    /\ pc = "streaming"
    /\ out' = ExecutionError(out)
    /\ execRaised' = TRUE
    /\ outAtRaise' = out
    /\ pc' = "terminated"
    /\ UNCHANGED <<files, tika, vision, completed, processed_files, routeCalls,
                   routeResp, decision, opened, chat, chunksRead>>
    /\ UNCHANGED execSeen
    /\ UNCHANGED <<gvars, tvars, evars, cvars, hvars>>

\* The backend's stream ends: the async for is left and done is yielded.
StreamEnds ==
    /\ pc = "streaming"
    /\ BackendEnded
    /\ out' = Finish(out)
    /\ pc' = "terminated"
    /\ UNCHANGED <<files, tika, vision, completed, processed_files, routeCalls,
                   routeResp, decision, opened, chat, chunksRead, execRaised, outAtRaise>>
    /\ UNCHANGED execSeen
    /\ UNCHANGED <<gvars, tvars, evars, cvars, hvars>>

Next ==
    \/ Start
    \/ TikaBegin
    \/ TikaFile
    \/ VisionBegin
    \/ VisionFile
    \/ Join
    \/ Routing
    \/ Open
    \/ RelayChunk
    \/ RelayEmpty
    \/ ReadRaises
    \/ StreamEnds

Spec == Init /\ [][Next]_vars

\* ------------------------------------------------------- the gateway relay
\* A line stream_from_orchestrator creates itself: a data line without an
\* event line, holding a Python dict literal with the key 'error'.
GwErrorLine == [type |-> "none", data |-> Data("error"), own |-> TRUE]

\* Events of the orchestrator's stream before its final done.
InnerEvents ==
    {[type |-> "status", data |-> Data("routing"), own |-> FALSE],
     [type |-> "response", data |-> Data("text"), own |-> FALSE],
     [type |-> "error", data |-> Data("execution"), own |-> FALSE]}

InnerDone == [type |-> "done", data |-> Data("completed"), own |-> FALSE]

\* The streams the orchestrator sends: events, then done.
InnerStreams == {Append(s, InnerDone) : s \in SeqsUpTo(InnerEvents, MaxInner)}

PipelineOff ==
    /\ files = <<>>
    /\ pc = "off"
    /\ out = <<>>
    /\ tika = IdleTask
    /\ vision = IdleTask
    /\ completed = <<>>
    /\ processed_files = <<>>
    /\ routeCalls = <<>>
    /\ routeResp = <<>>
    /\ decision = NoDecision
    /\ opened = <<>>
    /\ chat = "try"
    /\ chunksRead = 0
    /\ execRaised = FALSE
    /\ outAtRaise = <<>>
    /\ execSeen = <<>>

InitRelay ==
    /\ PipelineOff
    /\ BotOff
    /\ CodecOff
    /\ HandlerOff
    /\ gwUrl \in BOOLEAN
    /\ gwPc = "idle"
    /\ gwInner \in InnerStreams
    /\ gwSeen = <<>>
    /\ gwOut = <<>>
    /\ epPc = "idle"
    /\ epOut = <<>>

\* stream_from_orchestrator up to the async for: without ORCHESTRATOR_URL
\* the error line is yielded and the generator returns; otherwise the
\* stream is opened (client, POST, raise_for_status), and a raise there is
\* caught by the except clause, which yields the error line.
GwStart ==
    /\ gwPc = "idle"
    /\ IF ~gwUrl
       THEN /\ gwOut' = Append(gwOut, GwErrorLine)
            /\ gwPc' = "terminated"
       ELSE \E ok \in BOOLEAN :
              IF ok
              THEN /\ gwPc' = "streaming"
                   /\ UNCHANGED gwOut
              ELSE /\ gwOut' = Append(gwOut, GwErrorLine)
                   /\ gwPc' = "terminated"
    /\ UNCHANGED <<gwUrl, gwInner, gwSeen>>
    /\ UNCHANGED <<pvars, tvars, evars, cvars, hvars>>

\* A chunk of aiter_text that holds no text.
EmptyChunk == [type |-> "", data |-> Data(""), own |-> FALSE]

\* A loop body that yields every chunk.
GwForwardAll(o, chunk) == Append(o, chunk)

\* The body of the async for: "if chunk: yield chunk".
GwForward(o, chunk) == IF chunk # EmptyChunk THEN Append(o, chunk) ELSE o

\* One iteration of the async for: the chunk is yielded as received.
GwRelay ==
    /\ gwPc = "streaming"
    /\ gwInner # <<>>
    /\ gwOut' = GwForward(gwOut, Head(gwInner))
    /\ gwSeen' = Append(gwSeen, Head(gwInner))
    /\ gwInner' = Tail(gwInner)
    /\ UNCHANGED <<gwUrl, gwPc>>
    /\ UNCHANGED <<pvars, tvars, evars, cvars, hvars>>

\* One iteration of the async for with an empty chunk.
GwEmpty ==
    /\ gwPc = "streaming"
    /\ Len(SelectSeq(gwSeen, LAMBDA c : c = EmptyChunk)) < MaxEmpty
    /\ gwOut' = GwForward(gwOut, EmptyChunk)
    /\ gwSeen' = Append(gwSeen, EmptyChunk)
    /\ UNCHANGED <<gwUrl, gwPc, gwInner>>
    /\ UNCHANGED <<pvars, tvars, evars, cvars, hvars>>

\* Reading the next chunk raises: the except clause yields the error line.
GwReadRaises ==
    /\ gwPc = "streaming"
    /\ gwOut' = Append(gwOut, GwErrorLine)
    /\ gwPc' = "terminated"
    /\ UNCHANGED <<gwUrl, gwInner, gwSeen>>
    /\ UNCHANGED <<pvars, tvars, evars, cvars, hvars>>

\* The orchestrator's stream ends: the generator returns.
GwEnds ==
    /\ gwPc = "streaming"
    /\ gwInner = <<>>
    /\ gwPc' = "terminated"
    /\ UNCHANGED <<gwUrl, gwInner, gwSeen, gwOut>>
    /\ UNCHANGED <<pvars, tvars, evars, cvars, hvars>>

\* A request to /api/stream. stream_request is an async def that has both
\* a yield (line 123) and a return with a value (line 126), which Python
\* rejects when it compiles the module ("'return' with value in async
\* generator"): app/main.py cannot be imported, the application does not
\* start, and the client receives nothing.
StreamRequest ==
    /\ epPc = "idle"
    /\ epPc' = "unavailable"
    /\ epOut' = <<>>
    /\ UNCHANGED gvars
    /\ UNCHANGED <<pvars, tvars, cvars, hvars>>

NextRelay ==
    \/ StreamRequest
    \/ GwStart
    \/ GwRelay
    \/ GwEmpty
    \/ GwReadRaises
    \/ GwEnds

SpecRelay == InitRelay /\ [][NextRelay]_vars

\* ---------------------------------------------------- the chat-bot consumer
\* A text is a sequence of characters; NL is the newline.
NL == "\n"
Whitespace == {NL, " "}
ParagraphLetters == <<"a", "b", "c", "d", "e">>

\* Position of the first paragraph break ("\n\n") in s, 0 if there is none.
FindBreak(s) ==
    LET at == {i \in 1..(Len(s) - 1) : s[i] = NL /\ s[i + 1] = NL}
    IN IF at = {} THEN 0 ELSE CHOOSE i \in at : \A j \in at : i <= j

\* s.split("\n\n", 1): the text before the first break and, when there is a
\* break, the text after it.
SplitOnce(s) ==
    LET i == FindBreak(s)
    IN IF i = 0 THEN <<s>> ELSE <<SubSeq(s, 1, i - 1), SubSeq(s, i + 2, Len(s))>>

RECURSIVE LStrip(_)
LStrip(s) == IF s # <<>> /\ Head(s) \in Whitespace THEN LStrip(Tail(s)) ELSE s

RECURSIVE RStrip(_)
RStrip(s) ==
    IF s # <<>> /\ s[Len(s)] \in Whitespace THEN RStrip(SubSeq(s, 1, Len(s) - 1)) ELSE s

\* A strip that removes leading whitespace only.
StripLeading(s) == LStrip(s)

\* str.strip()
Strip(s) == RStrip(LStrip(s))

\* What the bot has delivered.
TextMessage(t) == [kind |-> "text", text |-> t, seen |-> <<>>]
\* A photo or an error message; seen is the text received before it.
PhotoMessage(seen) == [kind |-> "photo", text |-> <<>>, seen |-> seen]
ErrorMessage(seen) == [kind |-> "error", text |-> <<>>, seen |-> seen]

\* A _send_buffer that forgets the last message when sending raised.
send_buffer_forget(w, ok) ==
    IF w.acc.buffer = <<>> THEN w
    ELSE LET parts == SplitOnce(w.acc.buffer)
             text_to_send == Strip(parts[1])
             rest == IF Len(parts) > 1 THEN parts[2] ELSE <<>>
             sent == text_to_send # <<>> /\ ok
         IN World([buffer |-> rest,
                   current_message_id |->
                       IF sent THEN Len(w.chat) + 1
                       ELSE IF text_to_send # <<>> THEN 0
                       ELSE w.acc.current_message_id],
                  IF sent THEN Append(w.chat, TextMessage(text_to_send)) ELSE w.chat,
                  w.failed \/ (text_to_send # <<>> /\ ~ok))

\* A _send_buffer that keeps the segment when sending it raised.
send_buffer_keep(w, ok) ==
    IF w.acc.buffer = <<>> THEN w
    ELSE LET parts == SplitOnce(w.acc.buffer)
             text_to_send == Strip(parts[1])
             rest == IF Len(parts) > 1 THEN parts[2] ELSE <<>>
         IN IF text_to_send # <<>> /\ ~ok
            THEN World(w.acc, w.chat, TRUE)
            ELSE World([buffer |-> rest,
                        current_message_id |->
                            IF text_to_send # <<>> THEN Len(w.chat) + 1
                            ELSE w.acc.current_message_id],
                       IF text_to_send # <<>> THEN Append(w.chat, TextMessage(text_to_send))
                       ELSE w.chat,
                       w.failed)

\* StreamAccumulator._send_buffer: the text before the first break (the
\* whole buffer without a break) is stripped and, if not empty, sent; a
\* raise of send_message is swallowed; the buffer becomes the text after
\* the break, or empty.
send_buffer(w, ok) ==
    IF w.acc.buffer = <<>> THEN w
    ELSE LET parts == SplitOnce(w.acc.buffer)
             text_to_send == Strip(parts[1])
             rest == IF Len(parts) > 1 THEN parts[2] ELSE <<>>
             sent == text_to_send # <<>> /\ ok
         IN World([buffer |-> rest,
                   current_message_id |->
                       IF sent THEN Len(w.chat) + 1 ELSE w.acc.current_message_id],
                  IF sent THEN Append(w.chat, TextMessage(text_to_send)) ELSE w.chat,
                  w.failed \/ (text_to_send # <<>> /\ ~ok))

\* StreamAccumulator.add_chunk
add_chunk(w, text, ok) ==
    LET w1 == World([w.acc EXCEPT !.buffer = w.acc.buffer \o text], w.chat, w.failed)
    IN IF FindBreak(w1.acc.buffer) # 0 THEN send_buffer(w1, ok) ELSE w1

\* StreamAccumulator.flush
flush(w, ok) == IF w.acc.buffer # <<>> THEN send_buffer(w, ok) ELSE w

\* The JSON object of a data line: type is its "type" ("" when it has
\* none), content the text of a text payload.
Json(type, content) == [type |-> type, content |-> content]
NoJson == Json("", <<>>)

\* The lines aiter_lines yields for one event frame "event: X\ndata: J\n\n".
EventLine(e) == [tag |-> "event", event |-> e, data |-> NoJson]
DataLine(d) == [tag |-> "data", event |-> "", data |-> d]
BlankLine == [tag |-> "blank", event |-> "", data |-> NoJson]
\* A line that begins with ":".
CommentLine == [tag |-> "comment", event |-> "", data |-> NoJson]
FrameLines(f) == <<EventLine(f.event), DataLine(f.data), BlankLine>>

\* k + 1 one-letter paragraphs separated by k paragraph breaks.
RECURSIVE Para(_)
Para(k) ==
    IF k = 0 THEN <<ParagraphLetters[1]>>
    ELSE Para(k - 1) \o <<NL, NL, ParagraphLetters[k + 1]>>

\* The contents of text events: one paragraph, three paragraphs, and the
\* pieces that put a break, or a blank paragraph, across two events.
TextChunks == {Para(0), Para(2), <<"a", NL>>, <<NL>>}

NonTextTypes == {"image", "audio", "video", "document"}

\* The well-formed events of the stream.
Frames ==
    {[event |-> "response", data |-> Json("text", c)] : c \in TextChunks}
        \cup {[event |-> "response", data |-> Json(t, <<>>)] : t \in NonTextTypes}
        \cup {[event |-> e, data |-> NoJson] : e \in {"status", "error", "done"}}

\* The data of a data line that json.loads rejects.
NotJson == Json("<not json>", <<>>)

\* Events whose data line is not JSON.
MalformedFrames == {[event |-> e, data |-> NotJson] : e \in {"response", "done"}}

\* A data line that no event line precedes in its frame.
HeadlessLines == <<DataLine(Json("text", Para(0))), BlankLine>>

\* A text event with comment lines and a blank line around and between its
\* event line and its data line.
PaddedLines ==
    <<CommentLine, EventLine("response"), BlankLine, CommentLine,
      DataLine(Json("text", <<ParagraphLetters[5]>>)), BlankLine>>

\* What may arrive next on the wire.
Arrivals ==
    {FrameLines(f) : f \in Frames \cup MalformedFrames}
        \cup {HeadlessLines, PaddedLines}

\* The outcomes of the bot calls of one step: oks[1] the first call,
\* oks[2] the second, oks[3] the send of the finally clause. A run sees
\* at most one call of its bot raise.
BotOutcomes(failed) ==
    {oks \in [1..3 -> BOOLEAN] :
        /\ failed => \A i \in 1..3 : oks[i]
        /\ \A i, j \in 1..3 : (~oks[i] /\ ~oks[j]) => i = j}

BotOutcome(failed) == IF failed THEN {TRUE} ELSE BOOLEAN

\* The finally clause of stream_response_to_telegram.
finally_flush(w, ok) == flush(w, ok)

\* A done branch that flushes and goes on reading.
on_done_no_break(c, oks) == Consumer("reading", c.event_type, flush(c.w, oks[1]))

\* The done branch: flush, break, and the finally clause on the way out.
on_done(c, oks) ==
    Consumer("returned", c.event_type, finally_flush(flush(c.w, oks[1]), oks[3]))

\* A bot call other than the accumulator's: delivers msg, or raises, and
\* the exception leaves the function through the finally clause.
deliver(c, w, msg, oks) ==
    IF oks[2]
    THEN Consumer("reading", c.event_type, World(w.acc, Append(w.chat, msg), w.failed))
    ELSE Consumer("raised", c.event_type,
                  finally_flush(World(w.acc, w.chat, TRUE), oks[3]))

\* A status branch that flushes the accumulator.
on_status_flush(c, oks) == Consumer("reading", c.event_type, flush(c.w, oks[1]))

\* The status branch: the stage is logged, nothing else happens.
on_status(c, oks) == c

\* The body of "if line.startswith('data: ')" for a line whose JSON parsed.
handle_data(c, data, seen, oks) ==
    CASE c.event_type = Unbound ->
            Consumer("raised", Unbound, finally_flush(c.w, oks[3]))
      [] c.event_type = "response" ->
            IF data.type = "text"
            THEN Consumer("reading", c.event_type, add_chunk(c.w, data.content, oks[1]))
            ELSE IF data.type = "image"
            THEN deliver(c, flush(c.w, oks[1]), PhotoMessage(seen), oks)
            ELSE c
      [] c.event_type = "status" -> on_status(c, oks)
      [] c.event_type = "error" ->
            deliver(c, flush(c.w, oks[1]), ErrorMessage(seen), oks)
      [] c.event_type = "done" -> on_done(c, oks)
      [] OTHER -> c

\* A loop in which a blank line ends the event and clears its type.
read_line_blank_resets(c, line, seen, oks) ==
    IF c.pc # "reading" THEN c
    ELSE CASE line.tag = "comment" -> c
           [] line.tag = "blank" -> [c EXCEPT !.event_type = Unbound]
           [] line.tag = "event" -> [c EXCEPT !.event_type = line.event]
           [] line.tag = "data" ->
                IF line.data = NotJson THEN c
                ELSE handle_data(c, line.data, seen, oks)

\* A loop in which the JSONDecodeError of a data line is not caught.
read_line_raising(c, line, seen, oks) ==
    IF c.pc # "reading" THEN c
    ELSE CASE line.tag \in {"blank", "comment"} -> c
           [] line.tag = "event" -> [c EXCEPT !.event_type = line.event]
           [] line.tag = "data" ->
                IF line.data = NotJson
                THEN Consumer("raised", c.event_type, finally_flush(c.w, oks[3]))
                ELSE handle_data(c, line.data, seen, oks)

\* One iteration of "async for line in sse_stream": a data line that is
\* not JSON raises JSONDecodeError inside the try, and the loop continues.
read_line(c, line, seen, oks) ==
    IF c.pc # "reading" THEN c
    ELSE CASE line.tag \in {"blank", "comment"} -> c
           [] line.tag = "event" -> [c EXCEPT !.event_type = line.event]
           [] line.tag = "data" ->
                IF line.data = NotJson THEN c
                ELSE handle_data(c, line.data, seen, oks)

\* The stream ends: the loop is left and the finally clause runs.
stream_ends(c, ok) ==
    IF c.pc # "reading" THEN c
    ELSE Consumer("returned", c.event_type, finally_flush(c.w, ok))

\* Reading the stream raises: the finally clause runs, the exception goes on.
read_raises(c, ok) ==
    IF c.pc # "reading" THEN c
    ELSE Consumer("raised", c.event_type, finally_flush(c.w, ok))

TgConsumer == Consumer(tgPc, tgEventType, World(tgAcc, tgChat, tgBotFailed))

\* The primary run becomes c.
TgBecomes(c) ==
    /\ tgPc' = c.pc
    /\ tgEventType' = c.event_type
    /\ tgAcc' = c.w.acc
    /\ tgChat' = c.w.chat
    /\ tgBotFailed' = c.w.failed

IsTextData(line) ==
    line.tag = "data" /\ tgEventType = "response" /\ line.data.type = "text"

InitBot ==
    /\ PipelineOff
    /\ GatewayIdle
    /\ CodecOff
    /\ HandlerOff
    /\ tgPc = "reading"
    /\ tgEventType = Unbound
    /\ tgPending = <<>>
    /\ tgAcc = NewAccumulator
    /\ tgChat = <<>>
    /\ tgBotFailed = FALSE
    /\ tgReceived = <<>>
    /\ tgFrames = 0
    /\ tgLast = NoEvent
    /\ tgDone = -1
    /\ tgOnlyText = TRUE
    /\ tgTwin = Consumer("reading", Unbound, World(NewAccumulator, <<>>, FALSE))

\* Every event that arrived has had its data line read.
WireDrained ==
    \A i \in 1..Len(tgPending) : tgPending[i].tag \in {"blank", "comment"}

\* One more event arrives on the wire.
TgArrive ==
    /\ tgFrames < MaxFrames
    /\ WireDrained
    /\ \E ls \in Arrivals : tgPending' = tgPending \o ls
    /\ tgFrames' = tgFrames + 1
    /\ UNCHANGED <<tgPc, tgEventType, tgAcc, tgChat, tgBotFailed, tgReceived,
                   tgLast, tgDone, tgOnlyText, tgTwin>>
    /\ UNCHANGED <<pvars, gvars, evars, cvars, hvars>>

TgReadLine ==
    /\ tgPc = "reading"
    /\ tgPending # <<>>
    /\ LET line == Head(tgPending)
       IN /\ \E oks \in BotOutcomes(tgBotFailed) :
                TgBecomes(read_line(TgConsumer, line, tgReceived, oks))
          /\ \E oks \in BotOutcomes(tgTwin.w.failed) :
                tgTwin' = read_line(tgTwin, line, tgReceived, oks)
          /\ tgReceived' =
                IF IsTextData(line) THEN tgReceived \o line.data.content ELSE tgReceived
          /\ tgLast' =
                IF line.tag = "data" THEN [type |-> tgEventType, kind |-> line.data.type]
                ELSE tgLast
          /\ tgDone' =
                IF tgDone >= 0 THEN tgDone + 1
                ELSE IF line.tag = "data" /\ line.data # NotJson /\ tgEventType = "done"
                     THEN 0 ELSE -1
          /\ tgOnlyText' =
                (tgOnlyText /\ (line.tag = "data" =>
                                  (IsTextData(line) \/ tgEventType \in {"status", "done"})))
    /\ tgPending' = Tail(tgPending)
    /\ UNCHANGED tgFrames
    /\ UNCHANGED <<pvars, gvars, evars, cvars, hvars>>

TgStreamEnds ==
    /\ tgPc = "reading"
    /\ tgPending = <<>>
    /\ \E ok \in BotOutcome(tgBotFailed) : TgBecomes(stream_ends(TgConsumer, ok))
    /\ \E ok \in BotOutcome(tgTwin.w.failed) : tgTwin' = stream_ends(tgTwin, ok)
    /\ UNCHANGED <<tgPending, tgReceived, tgFrames, tgLast, tgDone, tgOnlyText>>
    /\ UNCHANGED <<pvars, gvars, evars, cvars, hvars>>

TgReadRaises ==
    /\ tgPc = "reading"
    /\ tgPending = <<>>
    /\ \E ok \in BotOutcome(tgBotFailed) : TgBecomes(read_raises(TgConsumer, ok))
    /\ \E ok \in BotOutcome(tgTwin.w.failed) : tgTwin' = read_raises(tgTwin, ok)
    /\ UNCHANGED <<tgPending, tgReceived, tgFrames, tgLast, tgDone, tgOnlyText>>
    /\ UNCHANGED <<pvars, gvars, evars, cvars, hvars>>

NextBot ==
    \/ TgArrive
    \/ TgReadLine
    \/ TgStreamEnds
    \/ TgReadRaises

SpecBot == InitBot /\ [][NextBot]_vars

\* ------------------------------------------------------------------ claims
Terminated == pc = "terminated"
PastFanOut == pc \in {"routing", "execution", "streaming", "terminated"}
PastRouting == pc \in {"execution", "streaming", "terminated"}

\* Every route_request call so far could open its httpx client, so that
\* what happened in routing was the routing backend's doing.
RoutingClientOk == \A i \in 1..Len(routeResp) : routeResp[i].clientOk

IsRoutingError(e) == e.type = "error" /\ e.own /\ e.data.tag = "routing"

\* C1: whatever the backends do, the stream of a finished run holds exactly
\* one done event and it is the last event of the stream.
C1_ExactlyOneDoneLast ==
    (Terminated /\ RoutingClientOk)
        => (Count(out, IsDone) = 1 /\ IsDone(Last(out)))

\* C2: a run that has terminated has yielded a done event, on every path.
C2_TerminatedHasDone ==
    Terminated => \E i \in 1..Len(out) : IsDone(out[i])

\* C3: the stream the gateway relay hands on ends with a done event on
\* every path.
C3_RelayEndsWithDone ==
    gwPc = "terminated" => (gwOut # <<>> /\ IsDone(Last(gwOut)))

\* C4: when opening or reading the execution stream raises, the stream is
\* what had been yielded before, then one error of the pipeline's own, then
\* done, and the backend was opened once.
C4_ExecutionFailure ==
    execRaised =>
        LET n == Len(outAtRaise)
        IN /\ Terminated
           /\ Len(out) = n + 2
           /\ SubSeq(out, 1, n) = outAtRaise
           /\ IsOwnError(out[n + 1])
           /\ IsDone(out[n + 2]) /\ out[n + 2].own
           /\ Count(out, IsOwnError) = 1
           /\ Len(opened) = 1

C4_Witness ==
    /\ execRaised
    /\ \E i \in 1..Len(outAtRaise) : ~outAtRaise[i].own

\* C5: when the call to the routing backend fails (connection, timeout,
\* status, invalid body), route_request does not raise and returns the
\* fallback: the text route and prompt + separator + files context.
C5_RoutingFallback ==
    \A i \in 1..Len(routeResp) :
        (routeResp[i].clientOk /\ ~ValidDecision(routeResp[i].resp)) =>
            /\ PastRouting
            /\ \A k \in 1..Len(out) : ~IsRoutingError(out[k])
            /\ decision.route = "llm"
            /\ decision.enhanced_prompt =
                 original_prompt \o <<"\n\nKontekst:\n">> \o files_context(routeCalls[i])

C5_Witness ==
    /\ Len(routeResp) = 1
    /\ routeResp[1].clientOk
    /\ routeResp[1].resp.kind = "timeout"
    /\ Len(routeCalls[1]) = 2
    /\ PastRouting

\* C6: every run calls route_request once and gets a decision: the routing
\* error event is never yielded and the run goes on to execution.
C6_RoutingNeverFails ==
    /\ Len(routeCalls) <= 1
    /\ \A k \in 1..Len(out) : ~IsRoutingError(out[k])
    /\ PastRouting =>
          (Len(routeCalls) = 1 /\ decision.route \in {"llm", "comfy"})

\* C7: at most one execution adapter is opened in a run, and it is the one
\* of the decision's route.
C7_OneBackendByRoute ==
    /\ Len(opened) <= 1
    /\ opened # <<>> =>
         \/ decision.route = "llm" /\ opened[1] = "stream_from_llm"
         \/ decision.route = "comfy" /\ opened[1] = "stream_from_comfyui"

C7_Witness ==
    /\ opened = <<"stream_from_comfyui">>
    /\ Terminated

\* C8: a request without files yields no file-processing event, calls
\* neither adapter and hands an empty list to routing.
C8_NoFilesNoFanOut ==
    files = <<>> =>
        /\ \A k \in 1..Len(out) : ~IsFileEvent(out[k])
        /\ tika.st = "idle" /\ vision.st = "idle"
        /\ processed_files = <<>>
        /\ \A i \in 1..Len(routeCalls) : routeCalls[i] = <<>>

C8_Witness ==
    /\ files = <<>>
    /\ Len(routeCalls) = 1
    /\ Terminated

\* C9: in the merged list every document-extraction result comes before
\* every vision result, whichever task completed first.
C9_TikaBeforeVision ==
    PastFanOut =>
        \A i, j \in 1..Len(processed_files) :
            (processed_files[i].processing_method = "qwen3vl"
               /\ processed_files[j].processing_method = "tika") => j < i

C9_Witness ==
    /\ PastFanOut
    /\ completed = <<"vision", "tika">>
    /\ Len(processed_files) = 2
    /\ processed_files[1].processing_method = "tika"
    /\ processed_files[2].processing_method = "qwen3vl"

\* C10: when a fan-out adapter call raises as a whole, exactly one warning
\* event is yielded, before status(routing).
C10_WholeFailureWarns ==
    (PastFanOut /\ (tika.st = "raised" \/ vision.st = "raised")) =>
        /\ Count(out, IsWarning) = 1
        /\ FirstIndex(out, IsRoutingStatus) # 0 =>
             FirstIndex(out, IsWarning) < FirstIndex(out, IsRoutingStatus)

\* C11: when one fan-out adapter call raises as a whole, it contributes
\* nothing to the merged list, every result the other call returned is in
\* the list, and routing is reached and called with that list.
C11_WholeFailureIsolated ==
    /\ (PastFanOut /\ tika.st = "raised") =>
          processed_files = (IF vision.st = "returned" THEN vision.res ELSE <<>>)
    /\ (PastFanOut /\ vision.st = "raised") =>
          processed_files = (IF tika.st = "returned" THEN tika.res ELSE <<>>)
    /\ (pc = "fanout" /\ TaskDone(tika) /\ TaskDone(vision)) => ENABLED Join
    /\ \A i \in 1..Len(routeCalls) : routeCalls[i] = processed_files

C11_Witness ==
    /\ tika.st = "raised"
    /\ vision.st = "returned"
    /\ vision.res # <<>>
    /\ Len(routeCalls) = 1
    /\ Len(routeCalls[1]) = 1

\* ------------------------------------------------------- the event codec
\* _sse on the sending side and the line parser of
\* stream_response_to_telegram on the receiving side, character by
\* character. A JSON object is a sequence of members with string values.
Quote == "\""
Backslash == "\\"

EventPrefix == <<"e", "v", "e", "n", "t", ":", " ">>
DataPrefix == <<"d", "a", "t", "a", ":", " ">>

\* The event types of the protocol.
EventTypes ==
    {<<"s", "t", "a", "t", "u", "s">>,
     <<"r", "e", "s", "p", "o", "n", "s", "e">>,
     <<"w", "a", "r", "n", "i", "n", "g">>,
     <<"e", "r", "r", "o", "r">>,
     <<"d", "o", "n", "e">>}

Member(key, value) == [key |-> key, value |-> value]

\* Characters a payload's text is made of: a letter, a blank, and the
\* characters JSON has to escape.
TextAlphabet == {"a", " ", NL, Quote, Backslash}

Texts == SeqsUpTo(TextAlphabet, MaxText)

\* The payloads: the empty object, objects with one text member, and the
\* payload of a text response.
Payloads ==
    {<<>>}
        \cup {<<Member(k, v)>> : k \in {<<"c", "o", "n", "t", "e", "n", "t">>, <<"m", "e", "s", "s", "a", "g", "e">>}, v \in Texts}
        \cup {<<Member(<<"t", "y", "p", "e">>, <<"t", "e", "x", "t">>), Member(<<"c", "o", "n", "t", "e", "n", "t">>, v)>> : v \in Texts}

WireEvent(t, p) == [type |-> t, payload |-> p]

\* A json.dumps that writes every character of a string as it is.
EscapeCharRaw(ch) == <<ch>>

\* json.dumps of one character of a string.
EscapeChar(ch) ==
    CASE ch = Quote -> <<Backslash, Quote>>
      [] ch = Backslash -> <<Backslash, Backslash>>
      [] ch = NL -> <<Backslash, "n">>
      [] OTHER -> <<ch>>

RECURSIVE Escape(_)
Escape(text) ==
    IF text = <<>> THEN <<>> ELSE EscapeChar(Head(text)) \o Escape(Tail(text))

dumps_string(text) == <<Quote>> \o Escape(text) \o <<Quote>>

dumps_member(m) == dumps_string(m.key) \o <<":", " ">> \o dumps_string(m.value)

RECURSIVE dumps_members(_)
dumps_members(p) ==
    IF Len(p) = 1 THEN dumps_member(p[1])
    ELSE dumps_member(p[1]) \o <<",", " ">> \o dumps_members(Tail(p))

\* json.dumps(data, ensure_ascii=False)
json_dumps(p) ==
    IF p = <<>> THEN <<"{", "}">> ELSE <<"{">> \o dumps_members(p) \o <<"}">>

\* _sse(event, data)
sse_text(event, data) ==
    EventPrefix \o event \o <<NL>> \o DataPrefix \o json_dumps(data) \o <<NL, NL>>

\* The lines of a text that ends with a newline.
RECURSIVE SplitLines(_)
SplitLines(text) ==
    LET at == {i \in 1..Len(text) : text[i] = NL}
    IN IF at = {} THEN (IF text = <<>> THEN <<>> ELSE <<text>>)
       ELSE LET i == CHOOSE k \in at : \A j \in at : k <= j
            IN <<SubSeq(text, 1, i - 1)>> \o SplitLines(SubSeq(text, i + 1, Len(text)))

startswith(line, prefix) ==
    Len(line) >= Len(prefix) /\ SubSeq(line, 1, Len(prefix)) = prefix

Parsed(val, next) == [ok |-> TRUE, val |-> val, next |-> next]
NotParsed == [ok |-> FALSE, val |-> <<>>, next |-> 0]

\* The JSON string whose opening quote is before position i: its value and
\* the position after its closing quote.
RECURSIVE ScanString(_, _, _)
ScanString(s, i, acc) ==
    IF i > Len(s) THEN NotParsed
    ELSE IF s[i] = Quote THEN Parsed(acc, i + 1)
    ELSE IF s[i] = Backslash
    THEN IF i + 1 > Len(s) THEN NotParsed
         ELSE IF s[i + 1] \in {Quote, Backslash}
              THEN ScanString(s, i + 2, Append(acc, s[i + 1]))
         ELSE IF s[i + 1] = "n" THEN ScanString(s, i + 2, Append(acc, NL))
         ELSE NotParsed
    ELSE IF s[i] = NL THEN NotParsed
    ELSE ScanString(s, i + 1, Append(acc, s[i]))

ParseString(s, i) ==
    IF i <= Len(s) /\ s[i] = Quote THEN ScanString(s, i + 1, <<>>) ELSE NotParsed

\* "key": "value" at position i.
ParseMember(s, i) ==
    LET k == ParseString(s, i)
    IN IF ~k.ok THEN NotParsed
       ELSE IF ~(k.next + 1 <= Len(s) /\ s[k.next] = ":" /\ s[k.next + 1] = " ")
       THEN NotParsed
       ELSE LET v == ParseString(s, k.next + 2)
            IN IF v.ok THEN Parsed(Member(k.val, v.val), v.next) ELSE NotParsed

RECURSIVE ParseMembers(_, _, _)
ParseMembers(s, i, acc) ==
    LET m == ParseMember(s, i)
    IN IF ~m.ok \/ m.next > Len(s) THEN NotParsed
       ELSE IF s[m.next] = "}"
       THEN (IF m.next = Len(s) THEN Parsed(Append(acc, m.val), m.next + 1)
             ELSE NotParsed)
       ELSE IF m.next + 1 <= Len(s) /\ s[m.next] = "," /\ s[m.next + 1] = " "
       THEN ParseMembers(s, m.next + 2, Append(acc, m.val))
       ELSE NotParsed

\* json.loads of the text of a data line: the object, or JSONDecodeError.
json_loads(s) ==
    IF s = <<"{", "}">> THEN Parsed(<<>>, 3)
    ELSE IF s # <<>> /\ s[1] = "{" THEN ParseMembers(s, 2, <<>>)
    ELSE NotParsed

InitCodec ==
    /\ PipelineOff
    /\ GatewayIdle
    /\ BotOff
    /\ HandlerOff
    /\ cdPc = "encode"
    /\ cdEvent \in {WireEvent(t, p) : t \in EventTypes, p \in Payloads}
    /\ cdWire = <<>>
    /\ cdLines = <<>>
    /\ cdType = Unbound
    /\ cdDecoded = <<>>

\* The sender formats the event with _sse.
CdEncode ==
    /\ cdPc = "encode"
    /\ cdWire' = sse_text(cdEvent.type, cdEvent.payload)
    /\ cdPc' = "send"
    /\ UNCHANGED <<cdEvent, cdLines, cdType, cdDecoded>>
    /\ UNCHANGED <<pvars, gvars, tvars, evars, hvars>>

\* The receiver's aiter_lines cuts the text into lines.
CdSplit ==
    /\ cdPc = "send"
    /\ cdLines' = SplitLines(cdWire)
    /\ cdPc' = "parse"
    /\ UNCHANGED <<cdEvent, cdWire, cdType, cdDecoded>>
    /\ UNCHANGED <<pvars, gvars, tvars, evars, hvars>>

\* One iteration of "async for line in sse_stream" up to the dispatch on
\* event_type: empty and comment lines are skipped, an event line sets
\* event_type, a data line is parsed and, if it is JSON, dispatched with
\* the current event_type.
CdReadLine ==
    /\ cdPc = "parse"
    /\ cdLines # <<>>
    /\ LET line == Head(cdLines)
       IN IF line = <<>> \/ startswith(line, <<":">>)
          THEN UNCHANGED <<cdPc, cdType, cdDecoded>>
          ELSE IF startswith(line, EventPrefix)
          THEN /\ cdType' = Strip(SubSeq(line, 8, Len(line)))
               /\ UNCHANGED <<cdPc, cdDecoded>>
          ELSE IF startswith(line, DataPrefix)
          THEN LET data == json_loads(SubSeq(line, 7, Len(line)))
               IN IF ~data.ok THEN UNCHANGED <<cdPc, cdType, cdDecoded>>
                  ELSE IF cdType = Unbound
                  THEN /\ cdPc' = "raised"
                       /\ UNCHANGED <<cdType, cdDecoded>>
                  ELSE /\ cdDecoded' = Append(cdDecoded, WireEvent(cdType, data.val))
                       /\ UNCHANGED <<cdPc, cdType>>
          ELSE UNCHANGED <<cdPc, cdType, cdDecoded>>
    /\ cdLines' = Tail(cdLines)
    /\ UNCHANGED <<cdEvent, cdWire>>
    /\ UNCHANGED <<pvars, gvars, tvars, evars, hvars>>

\* The lines are used up.
CdEnd ==
    /\ cdPc = "parse"
    /\ cdLines = <<>>
    /\ cdPc' = "parsed"
    /\ UNCHANGED <<cdEvent, cdWire, cdLines, cdType, cdDecoded>>
    /\ UNCHANGED <<pvars, gvars, tvars, evars, hvars>>

NextCodec ==
    \/ CdEncode
    \/ CdSplit
    \/ CdReadLine
    \/ CdEnd

SpecCodec == InitCodec /\ [][NextCodec]_vars

\* --------------------------------------------------- the chat-bot handler
\* Telegram user ids and the values of config.ALLOWED_USER_IDS.
UserIds == {1, 2}
AllowLists == SUBSET UserIds

\* An update: who sent it, its text or caption, and what it carries.
Updates ==
    [user_id : UserIds, text : {"", "hi"}, document : BOOLEAN, photo : BOOLEAN]

\* What handle_message did for one update: the reply it sent itself, whether
\* it raised, and its calls of send_to_gateway.
Handling(update) == [update |-> update, reply |-> "", raised |-> FALSE, sent |-> <<>>]

\* A check that treats an empty allow-list as a list like any other.
check_access_listed(user_id) == user_id \in ALLOWED_USER_IDS

\* check_access: an allow-list that is not configured admits everyone.
check_access(user_id) ==
    IF ALLOWED_USER_IDS = {} THEN TRUE ELSE user_id \in ALLOWED_USER_IDS

\* The files handle_message collects: the document, then the largest photo.
CollectedFiles(update) ==
    (IF update.document THEN <<"document">> ELSE <<>>)
        \o (IF update.photo THEN <<"photo">> ELSE <<>>)

\* The update being handled and the record of its handling.
Current == hmLog[Len(hmLog)]
Record(field, value) == [hmLog EXCEPT ![Len(hmLog)][field] = value]

InitAccess ==
    /\ PipelineOff
    /\ GatewayIdle
    /\ BotOff
    /\ CodecOff
    /\ ALLOWED_USER_IDS \in AllowLists
    /\ hmPc = "idle"
    /\ hmLog = <<>>
    /\ hmFiles = <<>>

\* The dispatcher calls handle_message for the next update.
HmReceive ==
    /\ hmPc = "idle"
    /\ Len(hmLog) < MaxUpdates
    /\ \E update \in Updates : hmLog' = Append(hmLog, Handling(update))
    /\ hmPc' = "check_access"
    /\ hmFiles' = <<>>
    /\ UNCHANGED ALLOWED_USER_IDS
    /\ UNCHANGED <<pvars, gvars, tvars, evars, cvars>>

\* The access check at the head of handle_message: a user who does not
\* pass is told so and the handler returns.
HmCheckAccess ==
    /\ hmPc = "check_access"
    /\ IF ~check_access(Current.update.user_id)
       THEN /\ hmLog' = Record("reply", "denied")
            /\ hmPc' = "idle"
       ELSE /\ hmPc' = "collect"
            /\ UNCHANGED hmLog
    /\ UNCHANGED <<ALLOWED_USER_IDS, hmFiles>>
    /\ UNCHANGED <<pvars, gvars, tvars, evars, cvars>>

\* The text and the files are collected: an update with neither is answered
\* with a request for input; downloading a file may raise.
HmCollect ==
    /\ hmPc = "collect"
    /\ LET update == Current.update
       IN IF update.text = "" /\ ~update.document /\ ~update.photo
          THEN /\ hmLog' = Record("reply", "ask")
               /\ hmPc' = "idle"
               /\ UNCHANGED hmFiles
          ELSE \E ok \in BOOLEAN :
                  IF ok \/ CollectedFiles(update) = <<>>
                  THEN /\ hmFiles' = CollectedFiles(update)
                       /\ hmPc' = "send"
                       /\ UNCHANGED hmLog
                  ELSE /\ hmLog' = Record("raised", TRUE)
                       /\ hmPc' = "idle"
                       /\ UNCHANGED hmFiles
    /\ UNCHANGED ALLOWED_USER_IDS
    /\ UNCHANGED <<pvars, gvars, tvars, evars, cvars>>

\* The last statement of handle_message: send_to_gateway is called.
HmSend ==
    /\ hmPc = "send"
    /\ hmLog' = Record("sent",
                       <<[user_id |-> Current.update.user_id,
                          text |-> Current.update.text,
                          files |-> hmFiles]>>)
    /\ hmPc' = "idle"
    /\ UNCHANGED <<ALLOWED_USER_IDS, hmFiles>>
    /\ UNCHANGED <<pvars, gvars, tvars, evars, cvars>>

NextAccess ==
    \/ HmReceive
    \/ HmCheckAccess
    \/ HmCollect
    \/ HmSend

SpecAccess == InitAccess /\ [][NextAccess]_vars

\* ------------------------------------------------- claims on the consumer
\* The characters of s that are not whitespace.
Letters(s) == SelectSeq(s, LAMBDA ch : ch \notin Whitespace)

\* The texts of the text messages of a chat, in order.
RECURSIVE TextsOf(_)
TextsOf(chatlog) ==
    IF chatlog = <<>> THEN <<>>
    ELSE IF Head(chatlog).kind = "text"
         THEN <<Head(chatlog).text>> \o TextsOf(Tail(chatlog))
         ELSE TextsOf(Tail(chatlog))

RECURSIVE Concat(_)
Concat(texts) == IF texts = <<>> THEN <<>> ELSE Head(texts) \o Concat(Tail(texts))

\* The non-blank characters delivered as text in a chat.
DeliveredLetters(chatlog) == Letters(Concat(TextsOf(chatlog)))

\* The consumer stopped because it read a done event.
StoppedAtDone == tgPc = "returned" /\ tgDone = 0

\* C12: when the consumer has stopped after a done event (and no call of
\* the bot raised), the accumulator's buffer is empty and all the non-blank
\* text received in response text events has been delivered in messages:
\* none of it is lost, however many paragraph breaks it contains.
C12_NoTextLostAtDone ==
    (StoppedAtDone /\ ~tgBotFailed) =>
        /\ tgAcc.buffer = <<>>
        /\ DeliveredLetters(tgChat) = Letters(tgReceived)

\* C13: after the first done event the consumer reads no further line of
\* the stream: it has stopped, and what arrives after done stays unread.
C13_NothingReadAfterDone ==
    /\ tgDone <= 0
    /\ tgDone = 0 => tgPc \in {"returned", "raised"}

\* A response event arrived after the done event that stopped the consumer.
C13_Witness ==
    /\ StoppedAtDone
    /\ \E i \in 1..Len(tgPending) :
          tgPending[i].tag = "data" /\ tgPending[i].data.type = "image"

\* C14: once the data line of a response event of a non-textual type
\* (image, audio, video, document) has been processed without a call of the
\* bot raising, the last delivery is that event's payload.
C14_NonTextDelivered ==
    (/\ tgPc = "reading"
     /\ tgLast.type = "response"
     /\ tgLast.kind \in NonTextTypes
     /\ ~tgBotFailed) =>
        /\ tgChat # <<>>
        /\ Last(tgChat).kind = "photo"
        /\ Last(tgChat).seen = tgReceived

\* Every message of the given kind is preceded by all the non-blank text
\* that had been received when its event was processed.
TextDeliveredBefore(kind) ==
    \A i \in 1..Len(tgChat) :
        tgChat[i].kind = kind =>
            DeliveredLetters(SubSeq(tgChat, 1, i - 1)) = Letters(tgChat[i].seen)

\* C15: when an image is delivered (no call of the bot having raised), all
\* text received in earlier response text events has been delivered before
\* it; none of it is delivered after the image.
C15_TextBeforeImage == ~tgBotFailed => TextDeliveredBefore("photo")

\* C16: when an error event's message is delivered (no call of the bot
\* having raised), all text received before the error has been delivered
\* before it; the error message never precedes text received before it.
C16_TextBeforeError == ~tgBotFailed => TextDeliveredBefore("error")

\* The consumer fed all of text in one response event, then done.
OneChunkRun(text) ==
    on_done(Consumer("reading", "done",
                     add_chunk(World(NewAccumulator, <<>>, FALSE), text, TRUE)),
            [i \in 1..3 |-> TRUE])

\* C17: for a stream of response text events ended by done, the sequence of
\* text messages delivered depends only on the concatenation of the chunks:
\* it is the sequence delivered when that text arrives in a single event.
C17_CutIndependent ==
    (StoppedAtDone /\ tgOnlyText /\ ~tgBotFailed) =>
        TextsOf(tgChat) = TextsOf(OneChunkRun(tgReceived).w.chat)

\* C18: after add_chunk has returned, for any chunk, the buffer contains no
\* paragraph break.
C18_NoBreakAfterAddChunk ==
    (tgPc = "reading" /\ tgLast = [type |-> "response", kind |-> "text"]) =>
        FindBreak(tgAcc.buffer) = 0

RelayHealthy ==
    /\ gwPc \in {"streaming", "terminated"}
    /\ \A i \in 1..Len(gwOut) : gwOut[i] # GwErrorLine

NonEmptyChunks(s) == SelectSeq(s, LAMBDA c : c # EmptyChunk)

\* C20 as stated: while the inner stream is healthy, the sequence of chunks
\* the relay has yielded equals the sequence it has received, none dropped.
C20_RelayUnchanged == RelayHealthy => gwOut = gwSeen

\* C20: while the inner stream is healthy, the sequence of chunks the relay
\* has yielded equals the sequence of the non-empty chunks it has received,
\* in the same order, none of them dropped, altered, duplicated or added to.
C20_RelayNonEmptyUnchanged == RelayHealthy => gwOut = NonEmptyChunks(gwSeen)

\* A healthy relay ended after receiving an empty chunk among the events.
C20_Witness ==
    /\ RelayHealthy
    /\ gwPc = "terminated"
    /\ Len(gwOut) >= 3
    /\ \E i \in 2..Len(gwSeen) : gwSeen[i] = EmptyChunk

\* C23: reading a data line that is not JSON raises nothing, leaves the
\* accumulator and the chat as they were and delivers nothing; the consumer
\* is in the state it was in, so the lines that follow are processed as if
\* the bad line had not been there.
C23_BadJsonDropped ==
    [][(/\ tgPc = "reading"
        /\ tgPending # <<>>
        /\ Head(tgPending) = DataLine(NotJson)
        /\ tgPending' = Tail(tgPending))
          => /\ tgPc' = "reading"
             /\ tgEventType' = tgEventType
             /\ tgAcc' = tgAcc
             /\ tgChat' = tgChat
             /\ tgBotFailed' = tgBotFailed]_vars

\* A bad data line was read while text was buffered, and the consumer reads on.
C23_Witness ==
    /\ tgLast.kind = NotJson.type
    /\ tgPc = "reading"
    /\ tgAcc.buffer # <<>>
    /\ tgChat # <<>>

\* ------------------------------------------- claims on the gateway endpoint
\* C21: for every request to the gateway's streaming endpoint, what the
\* client receives holds exactly one meta event of the gateway, and every
\* event the gateway adds (warning, meta) precedes the first event of the
\* inner stream.
C21_GatewayPrefix ==
    epPc \notin {"off", "idle"} =>
        /\ Len(SelectSeq(epOut, LAMBDA e : e.own /\ e.type = "meta")) = 1
        /\ \A i, j \in 1..Len(epOut) : (i < j /\ ~epOut[i].own) => ~epOut[j].own

\* ------------------------------------------------- claims on the codec
\* C22: decoding the lines of an encoded event gives back the event: when
\* the parser has read the lines of _sse(t, p), it has dispatched exactly
\* one event, with type t and payload p.
C22_DecodeEncode == cdPc = "parsed" => cdDecoded = <<cdEvent>>

\* A round trip of a payload whose text holds a newline, a quote and a
\* backslash.
C22_Witness ==
    /\ cdPc = "parsed"
    /\ cdDecoded = <<cdEvent>>
    /\ Len(cdEvent.payload) = 2
    /\ \E i \in 1..Len(cdEvent.payload[2].value) :
          cdEvent.payload[2].value[i] \in {NL, Quote, Backslash}

\* ------------------------------------------- more claims on the pipeline
IsRoutingComplete(e) == e.type = "status" /\ e.own /\ e.data.tag = "routing_complete"

\* The stage an event of the stream belongs to: 1 file fan-out, 2 routing
\* begun, 3 routing complete, 4 relayed from the execution backend, 5 the
\* pipeline's own error and done events.
StageOf(e) ==
    IF IsFileEvent(e) THEN 1
    ELSE IF IsRoutingStatus(e) THEN 2
    ELSE IF IsRoutingComplete(e) THEN 3
    ELSE IF ~e.own THEN 4
    ELSE 5

C25_RoutingEventsOnce ==
    Terminated =>
        /\ Count(out, IsRoutingStatus) = 1
        /\ Count(out, IsRoutingComplete) = 1
        /\ \A i \in 1..Len(out) :
              (IsRoutingComplete(out[i]) /\ opened # <<>>)
                  => opened = <<Dispatch(out[i].data.route)>>
        /\ files = <<>> => \A i \in 1..Len(out) : ~IsFileEvent(out[i])

TaskUnfinished(t) == t.st \in {"pending", "running"}

\* C26: the run does not go past the file fan-out while an adapter call is
\* unfinished: as long as extract_text_from_documents or
\* recognize_multimodal_files has not returned or raised, status(routing)
\* has not been emitted and route_request has not been called.
C26_JoinBeforeRouting ==
    (TaskUnfinished(tika) \/ TaskUnfinished(vision)) =>
        /\ pc = "fanout"
        /\ routeCalls = <<>>
        /\ \A i \in 1..Len(out) : ~IsRoutingStatus(out[i])

\* One adapter call has completed, the other is in its per-file loop, and
\* the run waits.
C26_Witness ==
    /\ pc = "fanout"
    /\ tika.st = "raised"
    /\ vision.st = "running"
    /\ routeCalls = <<>>

\* A step of the per-file loop of an adapter call: the file's result is
\* appended or the file is skipped, the call does not raise, the loop moves
\* to the next file, and nothing is put on the stream.
FileStep(t, tNext, types, method) ==
    (t.st = "running" /\ tNext # t) =>
        /\ tNext.st \in {"running", "returned"}
        /\ tNext.st = "returned" <=> t.i = Len(Matching(files, types))
        /\ tNext.i = t.i + 1
        /\ \/ tNext.res = t.res
           \/ tNext.res = Append(t.res, ProcessedFile(Matching(files, types)[t.i], "text", method))
        /\ out' = out

\* C27: when the request for one file fails inside an adapter, that file
\* is left out of the adapter's result, the adapter goes on with the other
\* matching files in input order and returns normally, and no event about
\* the file is put on the stream.
C27_FileFailureIsolated ==
    [][/\ FileStep(tika, tika', document_types, "tika")
       /\ FileStep(vision, vision', multimodal_types, "qwen3vl")]_vars

\* The request for the first of two documents failed; the call returned the
\* second, and the stream holds only status(file_processing).
C27_Witness ==
    /\ tika.st = "returned"
    /\ Len(Matching(files, document_types)) = 2
    /\ tika.res = <<ProcessedFile(Matching(files, document_types)[2], "text", "tika")>>
    /\ Len(out) = 1

AllowList(method) == IF method = "tika" THEN document_types ELSE multimodal_types

\* C28: every entry of the merged list refers to a file of the request
\* whose type is in the allow-list of the adapter that produced it; a
\* request file yields at most one entry, and a file whose type is in
\* neither allow-list yields none.
C28_ProcessedFilesFromRequest ==
    /\ \A k \in 1..Len(processed_files) :
          LET e == processed_files[k]
          IN /\ \E i \in 1..Len(files) :
                   files[i].filename = e.filename /\ files[i].type = e.original_type
             /\ e.original_type \in AllowList(e.processing_method)
    /\ \A i \in 1..Len(files) :
          LET n == Len(SelectSeq(processed_files,
                                 LAMBDA e : e.filename = files[i].filename))
          IN /\ n <= 1
             /\ files[i].type \notin (document_types \cup multimodal_types) => n = 0
    /\ document_types \cap multimodal_types = {}

\* A request with a document and a file of neither list: one entry.
C28_Witness ==
    /\ PastFanOut
    /\ Len(files) = 2
    /\ \E i \in 1..2 : files[i].type \notin (document_types \cup multimodal_types)
    /\ Len(processed_files) = 1

\* The requests an adapter call has sent: one for each file its loop is past.
RequestsSent(t) == IF t.st \in {"running", "returned"} /\ t.i > 0 THEN t.i - 1 ELSE 0

\* C29: nothing is retried within one run: an adapter sends at most one
\* request per matching file, route_request is called at most once and an
\* execution backend is opened at most once, also after the call failed.
C29_NoRetry ==
    /\ RequestsSent(tika) <= Len(Matching(files, document_types))
    /\ RequestsSent(vision) <= Len(Matching(files, multimodal_types))
    /\ Len(routeCalls) <= 1
    /\ Len(opened) <= 1

\* A run ended by a failure to open the execution backend, after a failed
\* call of the routing backend and a failed request for a document.
C29_Witness ==
    /\ Terminated
    /\ execRaised
    /\ chunksRead = 0
    /\ Len(opened) = 1
    /\ Len(routeResp) = 1 /\ routeResp[1].resp.kind = "timeout"
    /\ tika.st = "returned" /\ Len(tika.res) < Len(Matching(files, document_types))

\* The chunks read that hold text, as they appear on the stream when relayed.
RelayedSeen ==
    LET seen == SelectSeq(execSeen, LAMBDA c : c # NoText)
    IN [i \in 1..Len(seen) |-> relayed(seen[i])]

\* C30: during execution the events on the stream after
\* status(routing_complete) are the non-empty chunks read from the backend,
\* unchanged and in order, each on the stream before the next is read; the
\* pipeline puts no event of its own between them.
C30_RelayVerbatim ==
    opened # <<>> =>
        LET k == FirstIndex(out, IsRoutingComplete)
            n == Len(RelayedSeen)
        IN /\ k > 0
           /\ Len(out) >= k + n
           /\ SubSeq(out, k + 1, k + n) = RelayedSeen
           /\ pc = "streaming" => Len(out) = k + n
           /\ \A i \in (k + n + 1)..Len(out) : out[i].own

\* A chunk without text and a chunk with text were read; only the latter
\* is on the stream.
C30_Witness ==
    /\ pc = "streaming"
    /\ Len(execSeen) = 2
    /\ Len(RelayedSeen) = 1
    /\ execSeen[1] = NoText

\* ------------------------------------------------- file-stage status claims
IsFileProcessing(e) == e.type = "status" /\ e.own /\ e.data.tag = "file_processing"
IsFileProcessingComplete(e) ==
    e.type = "status" /\ e.own /\ e.data.tag = "file_processing_complete"

\* C31: a run whose request carries at least one file and that has reached
\* status(routing) has emitted status(file_processing) and, later,
\* status(file_processing_complete), both before status(routing), also when
\* no file produced a ProcessedFile.
C31_FileStatusPair ==
    \A k \in 1..Len(out) :
        (files # <<>> /\ IsRoutingStatus(out[k]))
            => \E i, j \in 1..(k - 1) :
                  /\ i < j
                  /\ IsFileProcessing(out[i])
                  /\ IsFileProcessingComplete(out[j])

\* ------------------------------------------------ text-backend stream claims
\* The events stream_chat has yielded so far, as read by the adapter.
ChatSeen == SelectSeq(execSeen, LAMBDA e : e # NoText)
FromChat == opened # <<>> /\ opened[Len(opened)] = "stream_from_llm"

\* C35: the stream of stream_chat ends with exactly one done event, as its
\* last event, on every path: the generator is exhausted only after done,
\* done is never followed by anything, and an error event is followed by
\* done and nothing else.
C35_DoneLast ==
    FromChat =>
        /\ chat # "final" => ChatYield(chat) # {}
        /\ chat = "final" => (ChatSeen # <<>> /\ Last(ChatSeen).type = "done")
        /\ chat = "failed" => (ChatSeen # <<>> /\ Last(ChatSeen).type = "error")
        /\ \A i \in 1..Len(ChatSeen) :
              /\ ChatSeen[i].type = "done" => (i = Len(ChatSeen) /\ chat = "final")
              /\ ChatSeen[i].type = "error" =>
                    \/ i = Len(ChatSeen) /\ chat = "failed"
                    \/ i + 1 = Len(ChatSeen) /\ ChatSeen[i + 1].type = "done"

\* C35 witness: raise_for_status raised, and the stream read to its end is
\* error followed by done.
C35_Witness ==
    /\ FromChat
    /\ chat = "final"
    /\ Len(ChatSeen) = 2
    /\ ChatSeen[1] = [type |-> "error", data |-> Data("llm_status")]
    /\ ChatSeen[2].type = "done"

\* ------------------------------------------- more claims on the consumer
\* C32: reading a data line with valid JSON before any event line has been
\* read raises nothing: the consumer goes on reading the following lines.
C32_DataBeforeEvent ==
    [][(/\ tgPc = "reading"
        /\ tgEventType = Unbound
        /\ tgPending # <<>>
        /\ Head(tgPending).tag = "data"
        /\ Head(tgPending).data # NotJson
        /\ tgPending' = Tail(tgPending))
          => tgPc' = "reading"]_vars

\* C33: reading a blank line or a line beginning with ":" changes nothing
\* in the consumer, wherever the line stands, also between an event line
\* and its data line: position, pending event type, accumulator and
\* delivered messages are what they were, so that the lines that follow are
\* processed as if the line had not been there.
C33_IgnoredLines ==
    [][(/\ tgPc = "reading"
        /\ tgPending # <<>>
        /\ Head(tgPending) \in {BlankLine, CommentLine}
        /\ tgPending' = Tail(tgPending))
          => /\ tgPc' = "reading"
             /\ tgEventType' = tgEventType
             /\ tgAcc' = tgAcc
             /\ tgChat' = tgChat
             /\ tgBotFailed' = tgBotFailed]_vars

\* The text of an event whose event line and data line were separated by a
\* blank line and a comment line has been delivered.
C33_Witness ==
    /\ ~tgBotFailed
    /\ \E i \in 1..Len(tgChat) :
          tgChat[i].kind = "text" /\ tgChat[i].text = <<ParagraphLetters[5]>>

\* C34: a status event changes neither the accumulator nor the delivered
\* messages nor whether the consumer continues. Reading its event line
\* changes the pending event type only, which the event line of the next
\* event replaces; reading its data line changes nothing at all. A stream
\* of events therefore delivers the same messages with or without it.
C34_StatusNoEffect ==
    [][(/\ tgPc = "reading"
        /\ tgPending # <<>>
        /\ tgPending' = Tail(tgPending)
        /\ \/ Head(tgPending) = EventLine("status")
           \/ /\ tgEventType = "status"
              /\ Head(tgPending).tag = "data"
              /\ Head(tgPending).data # NotJson)
          => /\ tgPc' = "reading"
             /\ tgAcc' = tgAcc
             /\ tgChat' = tgChat
             /\ tgBotFailed' = tgBotFailed
             /\ tgEventType' = "status"]_vars

\* The data line of a status event was read while text was buffered after
\* a delivery, and the consumer reads on.
C34_Witness ==
    /\ tgLast.type = "status"
    /\ tgPc = "reading"
    /\ tgAcc.buffer # <<>>
    /\ tgChat # <<>>
    /\ ~tgBotFailed

\* C36: when the consumer has stopped without having read a done event
\* (the stream closed or reading it raised) and no call of the bot raised,
\* the accumulator's buffer is empty and the text received has been
\* delivered.
C36_FlushAtStreamEnd ==
    (tgPc \in {"returned", "raised"} /\ tgDone = -1 /\ ~tgBotFailed) =>
        /\ tgAcc.buffer = <<>>
        /\ DeliveredLetters(tgChat) = Letters(tgReceived)

\* A text of whitespace only, the empty text included.
Blank(s) == \A i \in 1..Len(s) : s[i] \in Whitespace

\* The text messages of the chat are stripped, non-empty and hold no break.
CleanMessages ==
    \A i \in 1..Len(tgChat) :
        tgChat[i].kind = "text" =>
            /\ tgChat[i].text # <<>>
            /\ Head(tgChat[i].text) \notin Whitespace
            /\ Last(tgChat[i].text) \notin Whitespace
            /\ FindBreak(tgChat[i].text) = 0

\* C37: every text message the accumulator delivers is non-empty, has no
\* leading or trailing whitespace and contains no paragraph break; and a
\* segment of whitespace only, whether cut off by a break in add_chunk or
\* left in the buffer at done, is removed from the buffer without a message
\* being delivered.
C37_CleanMessages ==
    /\ []CleanMessages
    /\ [][(/\ tgPc = "reading"
           /\ tgPending # <<>>
           /\ tgPending' = Tail(tgPending)
           /\ IsTextData(Head(tgPending))
           /\ FindBreak(tgAcc.buffer \o Head(tgPending).data.content) # 0
           /\ Blank(SplitOnce(tgAcc.buffer \o Head(tgPending).data.content)[1]))
             => /\ tgChat' = tgChat
                /\ tgAcc'.buffer =
                      SplitOnce(tgAcc.buffer \o Head(tgPending).data.content)[2]
                /\ tgAcc'.current_message_id = tgAcc.current_message_id
                /\ tgPc' = "reading"]_vars
    /\ [][(/\ tgPc = "reading"
           /\ tgPending # <<>>
           /\ tgPending' = Tail(tgPending)
           /\ tgEventType = "done"
           /\ Head(tgPending).tag = "data"
           /\ Head(tgPending).data # NotJson
           /\ tgAcc.buffer # <<>>
           /\ FindBreak(tgAcc.buffer) = 0
           /\ Blank(tgAcc.buffer))
             => /\ tgChat' = tgChat
                /\ tgAcc'.buffer = <<>>
                /\ tgPc' = "returned"]_vars

\* A segment of whitespace only was consumed without a message, and text
\* received after it was delivered.
C37_Witness ==
    /\ ~tgBotFailed
    /\ Len(tgReceived) >= 3
    /\ tgReceived[1] = NL /\ tgReceived[2] = NL
    /\ \E i \in 1..Len(tgChat) : tgChat[i].kind = "text"

Admitted(user_id) == ALLOWED_USER_IDS = {} \/ user_id \in ALLOWED_USER_IDS

\* handle_message has returned (or raised) for the i-th update.
Handled(i) == i < Len(hmLog) \/ hmPc = "idle"

\* C39: handle_message calls send_to_gateway only for a user who passes the
\* allow-list: for a user id missing from a non-empty allow-list it replies
\* with the denial and never calls send_to_gateway, and nobody is denied
\* who is on the list or when the list is empty; an admitted user's update
\* with content is forwarded once unless collecting its files raised.
C39_AccessGate ==
    \A i \in 1..Len(hmLog) :
        LET h == hmLog[i]
        IN /\ h.sent # <<>> => Admitted(h.update.user_id)
           /\ ~Admitted(h.update.user_id) =>
                 /\ h.sent = <<>>
                 /\ Handled(i) => h.reply = "denied"
           /\ Admitted(h.update.user_id) => h.reply # "denied"
           /\ (/\ Admitted(h.update.user_id)
               /\ Handled(i)
               /\ ~h.raised
               /\ h.reply # "ask")
                 => /\ Len(h.sent) = 1
                    /\ h.sent[1].user_id = h.update.user_id

\* With a non-empty allow-list, one update was denied and one, of a listed
\* user and carrying a document, was forwarded.
C39_Witness ==
    /\ ALLOWED_USER_IDS # {}
    /\ hmPc = "idle"
    /\ \E i, j \in 1..Len(hmLog) :
          /\ hmLog[i].reply = "denied"
          /\ hmLog[j].sent # <<>>
          /\ hmLog[j].sent[1].files # <<>>

====
